---- MODULE Spec2Model ----
(***************************************************************************)
(* A model of business_case.py, a single-page wine dashboard.  The script  *)
(* is re-executed from top to bottom on every user interaction: it loads   *)
(* the (immutable) data frame, asks the sidebar widgets for their values,  *)
(* filters the frame and derives the tables behind the charts.             *)
(*                                                                         *)
(* Encoding.  A string is the sequence of its character codes, so that     *)
(* sorted(), ==, isin and the case-insensitive str.contains are computed   *)
(* on the characters.  A cell of the frame is <<>> when the value is       *)
(* missing (pandas NaN) and <<v>> when it is v.  Prices are whole numbers  *)
(* of dollars; a mean is kept exact, as the pair sum/count.                *)
(***************************************************************************)
EXTENDS Integers, Sequences, FiniteSets, TLC

\* ------------------------------------------------------------------ bounds
\* Longest data frame the page model loads.
MaxRows == 2
\* Longest data frame handed to the filter expression taken alone.
MaxFilterRows == 2
\* Largest price of a record, and the top of the price slider's grid.
MaxPrice == 2
\* Largest rating of a record.
MaxRating == 2
\* Number of further countries (beyond France and US) of the ranking inputs.
MaxExtraCountries == 10
\* Largest number of rows one country has in the ranking inputs.
MaxMult == 2

\* ----------------------------------------------------------------- strings
France == <<70, 114, 97, 110, 99, 101>>
US == <<85, 83>>
Burgundy == <<66, 117, 114, 103, 117, 110, 100, 121>>
Pinot_Noir == <<80, 105, 110, 111, 116, 32, 78, 111, 105, 114>>

\* Strings that occur only in the data.
Chile == <<67, 104, 105, 108, 101>>
LowerFrance == <<102, 114, 97, 110, 99, 101>>
Napa == <<78, 97, 112, 97>>
Cabernet == <<67, 97, 98>>
\* "x BURGUNDY": the needle in another case, not at the start.
UpperBurgundy == <<120, 32, 66, 85, 82, 71, 85, 78, 68, 89>>
\* "pinot noir r": the needle in lower case, followed by more text.
LowerPinot == <<112, 105, 110, 111, 116, 32, 110, 111, 105, 114, 32, 114>>

NaN == <<>>
Cell(v) == <<v>>
notna(c) == c # NaN
Val(c) == c[1]

\* str.lower on one character (ASCII).
lower(ch) == IF ch >= 65 /\ ch <= 90 THEN ch + 32 ELSE ch

\* Python's < on two strings: by code point, a proper prefix first.
RECURSIVE str_lt(_, _)
str_lt(a, b) ==
    IF b = <<>> THEN FALSE
    ELSE IF a = <<>> THEN TRUE
    ELSE IF Head(a) # Head(b) THEN Head(a) < Head(b)
    ELSE str_lt(Tail(a), Tail(b))

\* Whether pat starts at position i of s, case ignored or not.
MatchAt(s, pat, i, nocase) ==
    /\ i + Len(pat) - 1 <= Len(s)
    /\ \A j \in 1..Len(pat) :
          IF nocase THEN lower(s[i + j - 1]) = lower(pat[j])
          ELSE s[i + j - 1] = pat[j]

\* Series.str.contains(pat, case=False, na=False) on one cell; pat holds no
\* regular-expression metacharacter, so the search is a substring search.
str_contains(c, pat) ==
    /\ notna(c)
    /\ \E i \in 1..(Len(Val(c)) + 1) : MatchAt(Val(c), pat, i, TRUE)

\* ------------------------------------------------------------- sequences
SeqToSet(s) == {s[i] : i \in 1..Len(s)}

\* The sequence f, written out element by element.
AsSeq(f) == f \o <<>>

RECURSIVE Select(_, _, _)
\* s[mask] from position i on: the elements of s where the boolean mask is
\* true, in their order.
Select(s, mask, i) ==
    IF i > Len(s) THEN <<>>
    ELSE IF mask[i] THEN <<s[i]>> \o Select(s, mask, i + 1)
    ELSE Select(s, mask, i + 1)

\* Series.dropna()
dropna(col) == Select(col, [i \in 1..Len(col) |-> notna(col[i])], 1)

\* The values of Series.dropna(), in order.
values(col) ==
    LET kept == dropna(col)
    IN AsSeq([i \in 1..Len(kept) |-> Val(kept[i])])

\* Series.unique(): first occurrences, in order of appearance.
unique(col) ==
    Select(col, [i \in 1..Len(col) |-> \A j \in 1..(i - 1) : col[j] # col[i]], 1)

\* head(n)
head(s, n) == SubSeq(s, 1, IF Len(s) < n THEN Len(s) ELSE n)

\* A stable sort of s; lt[i][j] says that s[i] sorts strictly before s[j].
\* Elements neither of which sorts before the other keep their order.
StableSort(s, lt) ==
    LET n == Len(s)
        rank(i) == Cardinality({j \in 1..n :
                       lt[j][i] \/ (~lt[i][j] /\ j < i)})
        ranks == AsSeq([i \in 1..n |-> rank(i)])
    IN AsSeq([k \in 1..n |-> s[CHOOSE i \in 1..n : ranks[i] = k - 1]])

\* sorted() on a sequence of strings.
sorted(s) ==
    StableSort(s, [i \in 1..Len(s) |-> [j \in 1..Len(s) |-> str_lt(s[i], s[j])]])

\* ------------------------------------------------------------ data frame
\* A data frame is the sequence of its rows; a row is a record of cells.
Row(c, r, g, p, q) ==
    [Country |-> c, Region |-> r, Grape |-> g, Price_USD |-> p, Rating |-> q]

\* df[name]
Col(frame, name) == AsSeq([i \in 1..Len(frame) |-> frame[i][name]])

\* isin with an empty selection read as "no restriction".
isin_or_all(c, selection) == selection = {} \/ (notna(c) /\ Val(c) \in selection)

\* Series.isin(values), by row: a missing value is in no selection.
isin(c, selection) == notna(c) /\ Val(c) \in selection

\* Series.min() and Series.max(): missing values are skipped.
col_min(col) ==
    LET S == {Val(c) : c \in {d \in SeqToSet(col) : notna(d)}}
    IN CHOOSE v \in S : \A w \in S : v <= w

col_max(col) ==
    LET S == {Val(c) : c \in {d \in SeqToSet(col) : notna(d)}}
    IN CHOOSE v \in S : \A w \in S : v >= w

\* The options of the Country widget.
country_options(frame) == sorted(unique(values(Col(frame, "Country"))))

\* The value every Streamlit multiselect starts from in this script.
default_country == {France, US}

\* The mask of the rows whose country is selected.
country_mask(frame, sel_country) ==
    [i \in 1..Len(frame) |-> isin(frame[i].Country, sel_country)]

\* The regions of every row, whatever its country.
regions_of_all(frame, sel_country) == unique(values(Col(frame, "Region")))

regions_of(frame, sel_country) ==
    unique(values(Col(Select(frame, country_mask(frame, sel_country), 1), "Region")))

grapes_of(frame, sel_country, sel_region) ==
    LET mask == [i \in 1..Len(frame) |->
                    /\ isin(frame[i].Country, sel_country)
                    /\ isin(frame[i].Region, sel_region)]
    IN unique(values(Col(Select(frame, mask, 1), "Grape")))

\* A multiselect that keeps the value it had, whatever its options become.
multiselect_stale(available, widget) ==
    [id |-> <<sorted(available), available>>,
     value |-> IF widget.id = <<>> THEN SeqToSet(available) ELSE widget.value]

\* st.multiselect(label, sorted(available), default=available).  Streamlit
\* identifies a widget without a key by its arguments: while the options and
\* the default are those of the previous run the widget keeps the value the
\* user left in it, and otherwise it is a new widget that returns its default.
multiselect(available, widget) ==
    LET id == <<sorted(available), available>>
    IN IF widget.id = id THEN widget
       ELSE [id |-> id, value |-> SeqToSet(available)]

\* The range without its upper end.
between_open(c, range) == notna(c) /\ Val(c) >= range[1] /\ Val(c) < range[2]

\* A comparison with a missing value is false.
between(c, range) == notna(c) /\ Val(c) >= range[1] /\ Val(c) <= range[2]

\* The focus profile without the price and rating ranges.
focus_row_unbounded(row, price, rating) ==
    /\ row.Country = Cell(France)
    /\ str_contains(row.Region, Burgundy)
    /\ str_contains(row.Grape, Pinot_Noir)

focus_row(row, price, rating) ==
    /\ row.Country = Cell(France)
    /\ str_contains(row.Region, Burgundy)
    /\ str_contains(row.Grape, Pinot_Noir)
    /\ between(row.Price_USD, price)
    /\ between(row.Rating, rating)

select_row(row, sel_country, sel_region, sel_grape, price, rating) ==
    /\ isin(row.Country, sel_country)
    /\ isin(row.Region, sel_region)
    /\ isin(row.Grape, sel_grape)
    /\ between(row.Price_USD, price)
    /\ between(row.Rating, rating)

filter(frame, sel_country, sel_region, sel_grape, price, rating, focus) ==
    IF focus
    THEN Select(frame, [i \in 1..Len(frame) |-> focus_row(frame[i], price, rating)], 1)
    ELSE Select(frame, [i \in 1..Len(frame) |->
             select_row(frame[i], sel_country, sel_region, sel_grape, price, rating)], 1)

\* ------------------------------------------------------------ aggregates
RECURSIVE Sum(_)
Sum(s) == IF s = <<>> THEN 0 ELSE Head(s) + Sum(Tail(s))

\* Series.mean(): missing values are skipped; the mean of nothing is NaN.
\* The mean is the exact fraction <<sum, count>>.
mean(col) ==
    LET x == values(col)
    IN IF x = <<>> THEN NaN ELSE Cell(<<Sum(x), Len(x)>>)

\* a > b on two fractions with positive denominators.
frac_gt(a, b) == a[1] * b[2] > b[1] * a[2]

\* Series.value_counts(): one row per distinct non-missing value, the most
\* frequent first; values of equal frequency stay in order of appearance.
value_counts(col) ==
    LET keys == unique(values(col))
        rows == AsSeq([k \in 1..Len(keys) |->
                    [Country |-> keys[k],
                     Count |-> Cardinality({i \in 1..Len(col) : col[i] = Cell(keys[k])})]])
    IN StableSort(rows, [i \in 1..Len(rows) |-> [j \in 1..Len(rows) |->
                            rows[i].Count > rows[j].Count]])

\* The size of every ranking the page shows.
TopN == 10

\* One row too many.
top_countries_long(frame) == head(value_counts(Col(frame, "Country")), TopN + 1)

top_countries_of(frame) == head(value_counts(Col(frame, "Country")), TopN)

\* df.groupby('Country')['Price_USD'].mean().reset_index(): one row per
\* distinct non-missing country, in ascending order of the country; the mean
\* of a country none of whose rows has a price is NaN.
groupby_mean(frame) ==
    LET keys == sorted(unique(values(Col(frame, "Country"))))
    IN AsSeq([k \in 1..Len(keys) |->
          [Country |-> keys[k],
           Price_USD |-> mean(Col(Select(frame,
               [i \in 1..Len(frame) |-> frame[i].Country = Cell(keys[k])], 1), "Price_USD"))]])

\* sort_values(ascending=False): the largest first, NaN last.
sort_values_desc(rows) ==
    StableSort(rows, [i \in 1..Len(rows) |-> [j \in 1..Len(rows) |->
        /\ notna(rows[i].Price_USD)
        /\ \/ ~notna(rows[j].Price_USD)
           \/ frac_gt(Val(rows[i].Price_USD), Val(rows[j].Price_USD))]])

avg_price_country_of(frame) == head(sort_values_desc(groupby_mean(frame)), TopN)

avg_price_by_country_of(frame) == groupby_mean(frame)

ratings_countries_of(frame, top) ==
    Select(frame, [i \in 1..Len(frame) |->
        isin(frame[i].Country, {top[k].Country : k \in 1..Len(top)})], 1)

\* The q-th percentile of the ascending values x, by linear interpolation
\* between order statistics, as the exact fraction <<100 * value, 100>>.
percentile(x, q) ==
    LET pos == (Len(x) - 1) * q
        k == pos \div 100
        r == pos % 100
    IN IF r = 0 THEN <<100 * x[k + 1], 100>>
       ELSE <<100 * x[k + 1] + r * (x[k + 2] - x[k + 1]), 100>>

\* Series.describe(percentiles=[.25, .5, .75, .9]) of the prices.  std holds
\* the sample variance (n - 1 in the denominator) whose square root pandas
\* reports: NaN for fewer than two values.
describe(col) ==
    LET x == values(col)
        n == Len(x)
        asc == StableSort(x, [i \in 1..n |-> [j \in 1..n |-> x[i] < x[j]]])
        pct(q) == IF n = 0 THEN NaN ELSE Cell(percentile(asc, q))
    IN [count |-> n,
        mean |-> mean(col),
        std |-> IF n < 2 THEN NaN
                ELSE Cell(<<n * Sum(AsSeq([i \in 1..n |-> x[i] * x[i]])) - Sum(x) * Sum(x),
                            n * (n - 1)>>),
        min |-> IF n = 0 THEN NaN ELSE Cell(asc[1]),
        p25 |-> pct(25), p50 |-> pct(50), p75 |-> pct(75), p90 |-> pct(90),
        max |-> IF n = 0 THEN NaN ELSE Cell(asc[n])]

\* ------------------------------------------------------------------ state
VARIABLES
    df,                   \* the loaded data frame
    selected_country,     \* the value of the Country multiselect
    region_widget,        \* the Region multiselect: its identity and value
    grape_widget,         \* the Grape Variety multiselect: identity and value
    price_range,          \* the value of the price slider, <<low, high>>
    rating_range,         \* the value of the rating slider, <<low, high>>
    focus_mode,           \* the value of the checkbox
    regions_available,
    grapes_available,
    filtered_df,
    top_countries,
    avg_price_country,
    ratings_countries,
    price_stats,
    avg_price_by_country,
    phase                 \* "input": nothing computed yet; "shown": a run ended

vars == <<df, selected_country, region_widget, grape_widget, price_range,
          rating_range, focus_mode, regions_available, grapes_available,
          filtered_df, top_countries, avg_price_country, ratings_countries,
          price_stats, avg_price_by_country, phase>>

widgets == <<selected_country, region_widget, grape_widget, price_range,
             rating_range, focus_mode>>

selected_region == region_widget.value
selected_grape == grape_widget.value

min_price == col_min(Col(df, "Price_USD"))
max_price == col_max(Col(df, "Price_USD"))
min_rating == col_min(Col(df, "Rating"))
max_rating == col_max(Col(df, "Rating"))

\* A multiselect that has not been drawn yet.
NoWidget == [id |-> <<>>, value |-> {}]

\* The script with the country tables computed from the filtered frame.
script_on_filtered(frame, sel_country, region_w, grape_w, price, rating, focus) ==
    LET ra == regions_of(frame, sel_country)
        rw == multiselect(ra, region_w)
        ga == grapes_of(frame, sel_country, rw.value)
        gw == multiselect(ga, grape_w)
        out == filter(frame, sel_country, rw.value, gw.value, price, rating, focus)
        top == top_countries_of(out)
    IN [selected_country |-> sel_country,
        regions_available |-> ra,
        region_widget |-> rw,
        grapes_available |-> ga,
        grape_widget |-> gw,
        price_range |-> price,
        rating_range |-> rating,
        focus_mode |-> focus,
        filtered_df |-> out,
        top_countries |-> top,
        avg_price_country |-> avg_price_country_of(out),
        ratings_countries |-> ratings_countries_of(out, top),
        price_stats |-> describe(Col(out, "Price_USD")),
        avg_price_by_country |-> avg_price_by_country_of(out)]

\* One execution of the script below load_data(), with the values the
\* widgets hold: every derived table is computed anew from the frame.
script(frame, sel_country, region_w, grape_w, price, rating, focus) ==
    LET ra == regions_of(frame, sel_country)
        rw == multiselect(ra, region_w)
        ga == grapes_of(frame, sel_country, rw.value)
        gw == multiselect(ga, grape_w)
        out == filter(frame, sel_country, rw.value, gw.value, price, rating, focus)
        top == top_countries_of(frame)
    IN [selected_country |-> sel_country,
        regions_available |-> ra,
        region_widget |-> rw,
        grapes_available |-> ga,
        grape_widget |-> gw,
        price_range |-> price,
        rating_range |-> rating,
        focus_mode |-> focus,
        filtered_df |-> out,
        top_countries |-> top,
        avg_price_country |-> avg_price_country_of(frame),
        ratings_countries |-> ratings_countries_of(frame, top),
        price_stats |-> describe(Col(out, "Price_USD")),
        avg_price_by_country |-> avg_price_by_country_of(frame)]

\* The page shows what one execution of the script produced.
Shows(s) ==
    /\ selected_country = s.selected_country
    /\ regions_available = s.regions_available
    /\ region_widget = s.region_widget
    /\ grapes_available = s.grapes_available
    /\ grape_widget = s.grape_widget
    /\ price_range = s.price_range
    /\ rating_range = s.rating_range
    /\ focus_mode = s.focus_mode
    /\ filtered_df = s.filtered_df
    /\ top_countries = s.top_countries
    /\ avg_price_country = s.avg_price_country
    /\ ratings_countries = s.ratings_countries
    /\ price_stats = s.price_stats
    /\ avg_price_by_country = s.avg_price_by_country

\* A rerun of the script after an interaction.
Run(sel_country, region_w, grape_w, price, rating, focus) ==
    \E s \in {script(df, sel_country, region_w, grape_w, price, rating, focus)} :
       /\ selected_country' = s.selected_country
       /\ regions_available' = s.regions_available
       /\ region_widget' = s.region_widget
       /\ grapes_available' = s.grapes_available
       /\ grape_widget' = s.grape_widget
       /\ price_range' = s.price_range
       /\ rating_range' = s.rating_range
       /\ focus_mode' = s.focus_mode
       /\ filtered_df' = s.filtered_df
       /\ top_countries' = s.top_countries
       /\ avg_price_country' = s.avg_price_country
       /\ ratings_countries' = s.ratings_countries
       /\ price_stats' = s.price_stats
       /\ avg_price_by_country' = s.avg_price_by_country
       /\ phase' = "shown"
       /\ UNCHANGED df

\* The user changes the Country multiselect.
ChangeCountry ==
    /\ phase = "shown"
    /\ \E S \in SUBSET SeqToSet(country_options(df)) :
          /\ S # selected_country
          /\ Run(S, region_widget, grape_widget, price_range, rating_range,
                 focus_mode)

\* The user changes the Region multiselect: any subset of its options.
ChangeRegion ==
    /\ phase = "shown"
    /\ \E S \in SUBSET SeqToSet(regions_available) :
          /\ S # selected_region
          /\ Run(selected_country, [region_widget EXCEPT !.value = S],
                 grape_widget, price_range, rating_range, focus_mode)

\* The user changes the Grape Variety multiselect.
ChangeGrape ==
    /\ phase = "shown"
    /\ \E S \in SUBSET SeqToSet(grapes_available) :
          /\ S # selected_grape
          /\ Run(selected_country, region_widget,
                 [grape_widget EXCEPT !.value = S], price_range, rating_range,
                 focus_mode)

\* The user moves the price slider: a range inside [0, max_price].
ChangePrice ==
    /\ phase = "shown"
    /\ \E lo \in 0..max_price, hi \in 0..max_price :
          /\ lo <= hi
          /\ <<lo, hi>> # price_range
          /\ Run(selected_country, region_widget, grape_widget, <<lo, hi>>,
                 rating_range, focus_mode)

\* The user moves the rating slider: a range inside [min_rating, max_rating].
ChangeRating ==
    /\ phase = "shown"
    /\ \E lo \in min_rating..max_rating, hi \in min_rating..max_rating :
          /\ lo <= hi
          /\ <<lo, hi>> # rating_range
          /\ Run(selected_country, region_widget, grape_widget, price_range,
                 <<lo, hi>>, focus_mode)

\* The user ticks or unticks the focus checkbox.
ToggleFocus ==
    /\ phase = "shown"
    /\ Run(selected_country, region_widget, grape_widget, price_range,
           rating_range, ~focus_mode)

\* ------------------------------------------------------------- the inputs
\* The rows the data frames of the page model are made of.
PagePool ==
    { Row(Cell(France), Cell(Burgundy), Cell(Pinot_Noir), Cell(1), Cell(2)),
      Row(Cell(US), Cell(Napa), Cell(Cabernet), Cell(1), Cell(1)),
      Row(Cell(France), Cell(Napa), NaN, NaN, Cell(1)) }

\* What the script needs of the frame to get past its widgets: the default
\* countries France and US are among the options (line 24), and some price
\* and some rating is not missing (lines 35 to 39).
Loadable(frame) ==
    /\ default_country \subseteq SeqToSet(country_options(frame))
    /\ \E i \in 1..Len(frame) : notna(frame[i].Price_USD)
    /\ \E i \in 1..Len(frame) : notna(frame[i].Rating)

SeqsUpTo(S, n) == UNION {[1..k -> S] : k \in 0..n}

PageData == {f \in SeqsUpTo(PagePool, MaxRows) : Loadable(f)}

\* The page after load_data() and the first execution of the script: every
\* widget returns its default.
Init ==
    /\ df \in PageData
    /\ Shows(script(df, default_country, NoWidget, NoWidget,
                    <<min_price, max_price>>, <<min_rating, max_rating>>, FALSE))
    /\ phase = "shown"

Next ==
    \/ ChangeCountry
    \/ ChangeRegion
    \/ ChangeGrape
    \/ ChangePrice
    \/ ChangeRating
    \/ ToggleFocus

Spec == Init /\ [][Next]_vars

\* ------------------------------------------- the engine taken on its own
\* Lines 26 to 59 and 163 as a function of the frame and of the values the
\* widgets return, whatever these are: the option sets, the filtered frame
\* and its price summary.
EngineRows ==
    << Row(Cell(France), Cell(Burgundy), Cell(Pinot_Noir), Cell(1), Cell(1)),
       Row(Cell(France), Cell(Burgundy), Cell(Pinot_Noir), NaN, Cell(1)),
       Row(Cell(US), Cell(Napa), Cell(Cabernet), Cell(MaxPrice), Cell(MaxRating)),
       Row(Cell(US), Cell(Burgundy), Cell(Pinot_Noir), Cell(1), Cell(MaxRating)),
       Row(Cell(France), Cell(Napa), Cell(Pinot_Noir), Cell(1), Cell(1)),
       Row(Cell(France), Cell(Burgundy), Cell(Cabernet), Cell(MaxPrice), Cell(1)),
       Row(NaN, Cell(Burgundy), Cell(Pinot_Noir), Cell(1), Cell(1)),
       Row(Cell(France), NaN, Cell(Pinot_Noir), Cell(MaxPrice), Cell(1)),
       Row(Cell(France), Cell(Burgundy), NaN, Cell(1), Cell(MaxRating)),
       Row(Cell(France), Cell(Burgundy), Cell(Pinot_Noir), Cell(MaxPrice), NaN),
       Row(Cell(LowerFrance), Cell(Burgundy), Cell(Pinot_Noir), Cell(1), Cell(1)),
       Row(Cell(France), Cell(UpperBurgundy), Cell(LowerPinot), Cell(MaxPrice), Cell(MaxRating)) >>

\* The n rows of the table from row s on, wrapping around, forwards or
\* backwards.
Window(s, n, forwards) ==
    AsSeq([k \in 1..n |->
        EngineRows[1 + ((IF forwards THEN s - 1 + (k - 1) ELSE s - 1 + (n - k))
                        % Len(EngineRows))]])

EngineData ==
    {Window(s, n, d) : s \in 1..Len(EngineRows), n \in 0..MaxFilterRows,
                       d \in BOOLEAN}

\* Nothing has been computed.
Blank ==
    /\ regions_available = <<>>
    /\ grapes_available = <<>>
    /\ filtered_df = <<>>
    /\ top_countries = <<>>
    /\ avg_price_country = <<>>
    /\ ratings_countries = <<>>
    /\ price_stats = [count |-> 0]
    /\ avg_price_by_country = <<>>

InitEngine ==
    /\ df \in EngineData
    /\ selected_country \in SUBSET {France, US}
    /\ region_widget \in [id : {<<>>}, value : SUBSET {Burgundy, Napa}]
    /\ grape_widget \in [id : {<<>>}, value : SUBSET {Pinot_Noir, Cabernet}]
    /\ price_range \in (1..MaxPrice) \X (1..MaxPrice)
    /\ rating_range \in (1..MaxRating) \X (1..MaxRating)
    /\ focus_mode \in BOOLEAN
    /\ Blank
    /\ phase = "input"

\* The option sets, the filter and the price summary are computed.
Compute ==
    /\ phase = "input"
    /\ regions_available' = regions_of(df, selected_country)
    /\ grapes_available' = grapes_of(df, selected_country, selected_region)
    /\ \E out \in {filter(df, selected_country, selected_region, selected_grape,
                          price_range, rating_range, focus_mode)} :
          /\ filtered_df' = out
          /\ price_stats' = describe(Col(out, "Price_USD"))
    /\ phase' = "shown"
    /\ UNCHANGED <<df, widgets, top_countries, avg_price_country,
                   ratings_countries, avg_price_by_country>>

NextEngine == Compute

SpecEngine == InitEngine /\ [][NextEngine]_vars

\* ----------------------------------------- the rankings taken on their own
\* The i-th further country: "Ca", "Cb", ...
ExtraCountry(i) == <<67, 96 + i>>

\* A frame of France, US and n further countries.  Country i has
\* 1 + (i * p) % MaxMult rows, laid out in passes over the countries; q
\* chooses which rows have a price (0: all, 1: those of the even countries,
\* 2: the first row of each country); m rows without a country follow.
RankFrame(n, p, q, m) ==
    LET mult(i) == 1 + ((i * p) % MaxMult)
        price(i, j) ==
            IF q = 0 \/ (q = 1 /\ i % 2 = 0) \/ (q = 2 /\ j = 1)
            THEN Cell(1 + ((i + j) % MaxPrice)) ELSE NaN
        row(i, j) == Row(Cell(ExtraCountry(i)), Cell(Napa), Cell(Cabernet),
                         price(i, j), Cell(1))
        pass(j) == Select(AsSeq([i \in 1..n |-> row(i, j)]),
                          [i \in 1..n |-> mult(i) >= j], 1)
        passes[j \in 0..MaxMult] ==
            IF j = 0 THEN <<>> ELSE passes[j - 1] \o pass(j)
    IN <<Row(Cell(France), Cell(Burgundy), Cell(Pinot_Noir), Cell(MaxPrice), Cell(2)),
         Row(Cell(US), Cell(Napa), Cell(Cabernet), Cell(1), Cell(1))>>
       \o passes[MaxMult]
       \o AsSeq([k \in 1..m |-> Row(NaN, Cell(Napa), Cell(Cabernet), Cell(1), Cell(1))])

RankData ==
    PageData \cup
    {RankFrame(n, p, q, m) : n \in 0..MaxExtraCountries, p \in 0..MaxMult,
                             q \in 0..2, m \in 0..1}

InitRank ==
    /\ df \in RankData
    /\ selected_country = default_country
    /\ region_widget = NoWidget
    /\ grape_widget = NoWidget
    /\ price_range = <<min_price, max_price>>
    /\ rating_range = <<min_rating, max_rating>>
    /\ focus_mode = FALSE
    /\ Blank
    /\ phase = "input"

\* The tables behind the country charts are computed (lines 85, 102, 118
\* and 184).
Rank ==
    /\ phase = "input"
    /\ \E top \in {top_countries_of(df)} :
          /\ top_countries' = top
          /\ ratings_countries' = ratings_countries_of(df, top)
    /\ avg_price_country' = avg_price_country_of(df)
    /\ avg_price_by_country' = avg_price_by_country_of(df)
    /\ phase' = "shown"
    /\ UNCHANGED <<df, widgets, regions_available, grapes_available,
                   filtered_df, price_stats>>

NextRank == Rank

SpecRank == InitRank /\ [][NextRank]_vars

\* ------------------------------------------------------------- the claims
\* The options the Region and Grape Variety widgets are given.
region_options == sorted(regions_available)
grape_options == sorted(grapes_available)

\* a < b in the lexicographic order of the character codes.
LexLess(a, b) ==
    \E k \in 0..Len(a) :
       /\ k <= Len(b)
       /\ \A j \in 1..k : a[j] = b[j]
       /\ \/ k = Len(a) /\ k < Len(b)
          \/ k < Len(a) /\ k < Len(b) /\ a[k + 1] < b[k + 1]

Ascending(s) == \A i \in 1..(Len(s) - 1) : LexLess(s[i], s[i + 1])

\* The letter ch, folded to lower case.
Fold(ch) == IF ch \in 65..90 THEN ch + 32 ELSE ch

\* The string s holds pat somewhere, case ignored.
Holds(s, pat) ==
    \E start \in 0..(Len(s) - Len(pat)) :
       \A j \in 1..Len(pat) : Fold(s[start + j]) = Fold(pat[j])

\* Whether out is the rows of df at the positions M, in the order of df.
IsRowsAt(out, M) ==
    /\ Len(out) = Cardinality(M)
    /\ \A k \in 1..Len(out) :
          out[k] = df[CHOOSE i \in M : Cardinality({j \in M : j < i}) = k - 1]

InRange(c, range) == c # NaN /\ range[1] <= c[1] /\ c[1] <= range[2]

\* The positions of the rows the widgets' values select.
SelectedRows ==
    {i \in 1..Len(df) :
        /\ df[i].Country # NaN /\ df[i].Country[1] \in selected_country
        /\ df[i].Region # NaN /\ df[i].Region[1] \in selected_region
        /\ df[i].Grape # NaN /\ df[i].Grape[1] \in selected_grape
        /\ InRange(df[i].Price_USD, price_range)
        /\ InRange(df[i].Rating, rating_range)}

\* The positions of the France / Burgundy / Pinot Noir rows inside the ranges.
FocusRows ==
    {i \in 1..Len(df) :
        /\ df[i].Country = <<France>>
        /\ df[i].Region # NaN /\ Holds(df[i].Region[1], Burgundy)
        /\ df[i].Grape # NaN /\ Holds(df[i].Grape[1], Pinot_Noir)
        /\ InRange(df[i].Price_USD, price_range)
        /\ InRange(df[i].Rating, rating_range)}

\* C1: without focus mode the filtered frame is exactly the rows of df whose
\* country, region and grape are selected and whose price and rating lie in
\* the ranges, ends included, in the order of df; a row with any of the five
\* values missing is not among them.
C1_FilterExact ==
    (phase = "shown" /\ ~focus_mode) => IsRowsAt(filtered_df, SelectedRows)

\* C1 witness: the filter kept one row of two and dropped one whose price is
\* missing though everything else about it is selected.
C1_Witness ==
    /\ phase = "shown" /\ ~focus_mode
    /\ Len(df) = 2 /\ Len(filtered_df) = 1
    /\ filtered_df[1] = df[2]
    /\ df[1].Price_USD = NaN
    /\ df[1].Country # NaN /\ df[1].Country[1] \in selected_country
    /\ df[1].Region # NaN /\ df[1].Region[1] \in selected_region
    /\ df[1].Grape # NaN /\ df[1].Grape[1] \in selected_grape
    /\ InRange(df[1].Rating, rating_range)

\* C2: in focus mode the filtered frame is exactly the rows with country
\* France, a region holding "Burgundy" and a grape holding "Pinot Noir",
\* case ignored, whose price and rating lie in the ranges; the selections of
\* the three multiselects play no part.
C2_FocusExact ==
    (phase = "shown" /\ focus_mode) => IsRowsAt(filtered_df, FocusRows)

\* C2 witness: focus mode with nothing selected returned the row written in
\* another case and left out a France / Burgundy / Pinot Noir row whose
\* price is outside the range.
C2_Witness ==
    /\ phase = "shown" /\ focus_mode
    /\ selected_country = {} /\ selected_region = {} /\ selected_grape = {}
    /\ Len(df) = 2 /\ Len(filtered_df) = 1
    /\ filtered_df[1].Region = <<UpperBurgundy>>
    /\ \E i \in 1..2 :
          /\ df[i].Region = <<Burgundy>> /\ df[i].Grape = <<Pinot_Noir>>
          /\ df[i].Country = <<France>>
          /\ df[i].Price_USD # NaN /\ df[i].Price_USD[1] < price_range[1]

\* C3: without focus mode, with no country, no region and no grape selected,
\* the filtered frame is empty.
C3_EmptySelectionsMatchNothing ==
    (/\ phase = "shown" /\ ~focus_mode
     /\ selected_country = {} /\ selected_region = {} /\ selected_grape = {})
    => filtered_df = <<>>

\* C3 witness: nothing is selected and the frame holds a complete row inside
\* both ranges.
C3_Witness ==
    /\ phase = "shown" /\ ~focus_mode
    /\ selected_country = {} /\ selected_region = {} /\ selected_grape = {}
    /\ \E i \in 1..Len(df) :
          /\ df[i].Country # NaN /\ df[i].Region # NaN /\ df[i].Grape # NaN
          /\ InRange(df[i].Price_USD, price_range)
          /\ InRange(df[i].Rating, rating_range)

\* C4: the region options are the distinct non-missing regions of the rows
\* whose country is selected, in ascending order, and the grape options the
\* distinct non-missing grapes of the rows whose country and region are
\* selected, in ascending order; with no country selected both are empty.
C4_CascadeExact ==
    phase = "shown" =>
       /\ Ascending(region_options)
       /\ SeqToSet(region_options) =
             {df[i].Region[1] : i \in {j \in 1..Len(df) :
                 /\ df[j].Country # NaN /\ df[j].Country[1] \in selected_country
                 /\ df[j].Region # NaN}}
       /\ Ascending(grape_options)
       /\ SeqToSet(grape_options) =
             {df[i].Grape[1] : i \in {j \in 1..Len(df) :
                 /\ df[j].Country # NaN /\ df[j].Country[1] \in selected_country
                 /\ df[j].Region # NaN /\ df[j].Region[1] \in selected_region
                 /\ df[j].Grape # NaN}}
       /\ selected_country = {} =>
             (region_options = <<>> /\ grape_options = <<>>)

\* C4 witness: two region options that the frame holds in the other order,
\* and a grape of a selected country left out of the grape options because
\* its region is not selected.
C4_Witness ==
    /\ phase = "shown"
    /\ Len(region_options) = 2
    /\ region_options # regions_available
    /\ Len(grape_options) = 1
    /\ \E i \in 1..Len(df) :
          /\ df[i].Country # NaN /\ df[i].Country[1] \in selected_country
          /\ df[i].Grape # NaN /\ df[i].Grape[1] \notin SeqToSet(grape_options)

\* C5, as claimed: when the country selection changes, a selected region or
\* grape that drops out of the new option set stays selected.
C5_StaleSelectionKept ==
    [][selected_country' # selected_country =>
         /\ \A r \in selected_region :
               r \notin SeqToSet(regions_available') => r \in selected_region'
         /\ \A g \in selected_grape :
               g \notin SeqToSet(grapes_available') => g \in selected_grape']_vars

\* C5, amended: the option sets are those of the current upstream selection,
\* and every selected region or grape is one of the current options, so a
\* value that drops out of its option set leaves the selection.
C5_SelectionWithinOptions ==
    phase = "shown" =>
       /\ SeqToSet(regions_available) =
             {df[i].Region[1] : i \in {j \in 1..Len(df) :
                 /\ df[j].Country # NaN /\ df[j].Country[1] \in selected_country
                 /\ df[j].Region # NaN}}
       /\ SeqToSet(grapes_available) =
             {df[i].Grape[1] : i \in {j \in 1..Len(df) :
                 /\ df[j].Country # NaN /\ df[j].Country[1] \in selected_country
                 /\ df[j].Region # NaN /\ df[j].Region[1] \in selected_region
                 /\ df[j].Grape # NaN}}
       /\ selected_region \subseteq SeqToSet(regions_available)
       /\ selected_grape \subseteq SeqToSet(grapes_available)

\* C5 witness: France was deselected; its region Burgundy, selected when the
\* page opened, is no longer an option and no longer selected.
C5_Witness ==
    /\ phase = "shown"
    /\ selected_country = {US}
    /\ \E i \in 1..Len(df) :
          df[i].Country = <<France>> /\ df[i].Region = <<Burgundy>>
    /\ Burgundy \notin SeqToSet(regions_available)
    /\ Burgundy \notin selected_region
    /\ selected_region # {}

\* C6: a price summary is shown only of at least one price: the summary of
\* a filtered frame without any price is an error, never a table of NaN.
C6_NoSummaryOfNothing ==
    phase = "shown" => (price_stats.count > 0 /\ price_stats.mean # NaN)

C8_OnlyPricedCountries ==
    phase = "shown" =>
       /\ \A k \in 1..Len(avg_price_by_country) :
             avg_price_by_country[k].Price_USD # NaN
       /\ \A k \in 1..Len(avg_price_country) :
             avg_price_country[k].Price_USD # NaN

\* The distinct countries of df.
Countries == {df[i].Country[1] : i \in {j \in 1..Len(df) : df[j].Country # NaN}}

\* C9: the top countries are at most TopN rows of distinct countries, in
\* descending order of count; each count is the number of rows of df with
\* that country, so rows without a country count for none; and when df has
\* at most TopN countries the counts add up to the rows that have a country.
C9_TopCountries ==
    phase = "shown" =>
       /\ Len(top_countries) <= TopN
       /\ \A i, j \in 1..Len(top_countries) :
             /\ i < j => top_countries[i].Count >= top_countries[j].Count
             /\ i # j => top_countries[i].Country # top_countries[j].Country
       /\ \A k \in 1..Len(top_countries) :
             /\ top_countries[k].Country \in Countries
             /\ top_countries[k].Count =
                   Cardinality({i \in 1..Len(df) :
                       df[i].Country = <<top_countries[k].Country>>})
       /\ Cardinality(Countries) <= TopN =>
             Sum(AsSeq([k \in 1..Len(top_countries) |-> top_countries[k].Count]))
                = Cardinality({i \in 1..Len(df) : df[i].Country # NaN})

\* C9 witness: df has more than TopN countries and a row without a country;
\* the ranking was cut to TopN rows of unequal counts.
C9_Witness ==
    /\ phase = "shown"
    /\ Cardinality(Countries) > TopN
    /\ Len(top_countries) = TopN
    /\ top_countries[1].Count > top_countries[TopN].Count
    /\ \E i \in 1..Len(df) : df[i].Country = NaN

\* C9 witness of the sum: at most TopN countries, a row without a country.
C9_SumWitness ==
    /\ phase = "shown"
    /\ Cardinality(Countries) = TopN
    /\ \E i \in 1..Len(df) : df[i].Country = NaN

\* C10: whatever the user changes, the country tables stay those of the full
\* frame: they do not change from one run to the next and cover every
\* country of df, while the price summary counts the prices of the filtered
\* frame.
C10_RankingsFromFullFrame ==
    [][/\ top_countries' = top_countries
       /\ avg_price_country' = avg_price_country
       /\ avg_price_by_country' = avg_price_by_country
       /\ ratings_countries' = ratings_countries
       /\ {top_countries'[k].Country : k \in 1..Len(top_countries')}
             \subseteq Countries
       /\ Len(top_countries') =
             (IF Cardinality(Countries) < TopN THEN Cardinality(Countries) ELSE TopN)
       /\ {avg_price_by_country'[k].Country :
              k \in 1..Len(avg_price_by_country')} = Countries
       /\ price_stats'.count =
             Cardinality({i \in 1..Len(filtered_df') :
                 filtered_df'[i].Price_USD # NaN})]_vars

\* C10 witness: the filter has removed every row of a country that the
\* country tables still list.
C10_Witness ==
    /\ phase = "shown"
    /\ filtered_df # <<>>
    /\ \E k \in 1..Len(top_countries) :
          /\ \A i \in 1..Len(filtered_df) :
                filtered_df[i].Country # <<top_countries[k].Country>>
          /\ \E j \in 1..Len(avg_price_by_country) :
                avg_price_by_country[j].Country = top_countries[k].Country

====
